---- MODULE Spec2Model ----
(***************************************************************************)
(* Verification model of the plotters region / backend layer:              *)
(*   plotters/src/drawing/area.rs          Rect, DrawingArea               *)
(*   plotters/src/drawing/backend_impl/mocked.rs   MockedBackend           *)
(*   plotters/src/chart/state.rs           ChartState capture / restore    *)
(*   plotters/src/element/mod.rs           CoordMapper strategies          *)
(***************************************************************************)
EXTENDS Integers, Sequences, FiniteSets, TLC

(***************************************************************************)
(* Bounds of the model                                                      *)
(***************************************************************************)
\* number of layout operations chained from the root region
MaxDepth == 2
\* largest row / column count given to split_evenly
MaxGrid == 3
\* number of region operations issued against the backend in one run
MaxOps == 3
\* number of sub-elements appended to the anchor of a composed element
MaxElems == 3

\* canvas sizes (width, height) reported by the backend's get_size
CanvasSizes == { <<4, 3>>, <<5, 2>> }
\* pixel offsets handed to split_horizontally / split_vertically
SplitOffsets == { -1, 0, 1, 2, 6 }
\* (top, bottom, left, right) pixel sizes handed to margin
MarginSizes == { << 0, 0, 0, 0 >>, << 1, 0, 1, 0 >>, << 1, 1, 2, 2 >>,
                 << 0, 3, 0, 0 >>, << 0, 0, 3, 3 >> }
\* (x, y) pixel offsets and (width, height) pixel sizes handed to shrink
ShrinkOffsets == { << 0, 0 >>, << 1, 1 >>, << -1, 0 >>, << 6, 1 >> }
ShrinkSizes == { << 2, 2 >>, << 0, 1 >>, << 9, 2 >> }
\* (xs, ys) break point lists handed to split_by_breakpoints
BreakLists == { << << >>, << >> >>, << << 1 >>, << >> >>, << << 2, 1 >>, << 1 >> >>,
                << << 1, 1 >>, << 0 >> >>, << << >>, << 2 >> >>, << << 7 >>, << 1 >> >> }
\* text heights the backend's estimate_text_size may report
TextHeights == { 0, 3, 12 }
\* logical points handed to draw_pixel, draw_text and the elements
SamplePoints == { << 0, 0 >>, << 1, 2 >>, << 7, 1 >> }
\* pixel-offset points of the cross and of the text appended to a composed element
ElementOffsets == << << 1, 1 >>, << 0, -2 >> >>
\* (x, open, high, low, close, width) of the candlesticks drawn
CandleSticks == { << 1, 1, 2, 0, 2, 2 >>, << 2, 2, 3, 0, 1, 3 >> }
\* open and close prices in hundredths (130.06 is 13006), besides f64::NAN
Prices == { 12883, 12915, 13006 }
\* opposite corners of the cuboids drawn
CuboidCorners == { << << 0, 0, 0 >>, << 1, 1, 1 >> >>, << << 1, 0, 1 >>, << 2, 1, 0 >> >> }
\* lines and font sizes of the multi-line texts drawn
TextLines == { << >>, << "a" >>, << "a", "b", "c" >> }
FontSizes == { 2, 3 }
\* pixel points handed to Rect::truncate
PixelPoints == { << -2, 1 >>, << 1, 1 >>, << 3, -1 >>, << 7, 5 >> }
\* logical points of the three-dimensional coordinate systems
Points3d == { << 0, 0, 0 >>, << 1, 0, 2 >>, << 3, -2, 1 >> }
\* (x, y) offsets and (width, height) sizes of a chart's plotting region in its root
ChartOffsets == { << 0, 0 >>, << 1, 0 >>, << 2, 1 >> }
ChartSizes == { << 0, 0 >>, << 1, 1 >>, << 2, 1 >>, << 4, 3 >> }

(***************************************************************************)
(* State                                                                    *)
(***************************************************************************)
VARIABLES
    backend,   \* the MockedBackend: size and call counters
    calls,     \* backend calls issued by the last region operation, in order
    ret,       \* result of the last region operation: "Ok" or "Err"
    error,     \* the DrawingAreaError the last region operation returned, or None
    parent,    \* the region the last layout operation was applied to
    result,    \* the regions the last layout operation returned, in order
    op,        \* the last operation and its arguments
    depth,     \* number of operations performed so far
    chart,     \* the ChartContext built last, or NoChart
    state,     \* the ChartState captured from chart, or NoState
    restored,  \* the ChartContext restored from state, or NoChart
    mapped     \* the value the last Rect::truncate or CoordMapper::map returned

vars == << backend, calls, ret, error, parent, result, op, depth, chart, state, restored,
           mapped >>

(***************************************************************************)
(* Integer helpers                                                          *)
(***************************************************************************)
\* Option::None
None == [ none |-> "Option" ]

Min(a, b) == IF a <= b THEN a ELSE b
Max(a, b) == IF a >= b THEN a ELSE b

\* `v as u32` of an i32: the same 32 bits, kept as the top bit and the low 31 bits
AsU32(v) == IF v < 0 THEN [hi |-> 1, lo |-> (v + 2147483647) + 1]
                     ELSE [hi |-> 0, lo |-> v]
\* `u as i32` of a u32: the same 32 bits read as two's complement
AsI32(u) == IF u.hi = 1 THEN (u.lo - 2147483647) - 1 ELSE u.lo

\* slice::sort_unstable on a sequence of i32 (insertion sort, ascending)
RECURSIVE insert_sorted(_, _)
insert_sorted(v, s) ==
    IF s = << >> THEN << v >>
    ELSE IF v <= Head(s) THEN << v >> \o s
    ELSE << Head(s) >> \o insert_sorted(v, Tail(s))

RECURSIVE sort_unstable(_)
sort_unstable(s) ==
    IF s = << >> THEN << >> ELSE insert_sorted(Head(s), sort_unstable(Tail(s)))

(***************************************************************************)
(* Rect (area.rs)                                                           *)
(***************************************************************************)
Rect(x0, y0, x1, y1) == [x0 |-> x0, y0 |-> y0, x1 |-> x1, y1 |-> y1]

\* the body of the closure of Rect::split, folded over the break points
RECURSIVE split_from(_, _, _, _, _)
split_from(self, x0, y0, points, vertical) ==
    IF points = << >> THEN << >>
    ELSE LET p  == Head(points)
             x1 == IF vertical THEN self.x1 ELSE p
             y1 == IF vertical THEN p ELSE self.y1
         IN  << Rect(x0, y0, x1, y1) >>
             \o split_from(self,
                           IF vertical THEN x0 ELSE x1,
                           IF vertical THEN y1 ELSE y0,
                           Tail(points), vertical)

\* Rect::split: the break points chained with the far bound of the axis
split(self, break_points, vertical) ==
    split_from(self, self.x0, self.y0,
               break_points \o << IF vertical THEN self.y1 ELSE self.x1 >>,
               vertical)

\* compute_evenly_split, for to >= from (size is `(to - from) as usize`)
compute_evenly_split_remainder_last(from, to, n, idx) ==
    LET size == to - from
    IN  from + idx * (size \div n) + (IF idx = n THEN size % n ELSE 0)

compute_evenly_split_no_remainder(from, to, n, idx) ==
    LET size == to - from
    IN  IF idx = n THEN to ELSE from + idx * (size \div n)

compute_evenly_split(from, to, n, idx) ==
    LET size == to - from
    IN  from + idx * (size \div n) + Min(idx, size % n)

\* Rect::split_evenly: cell number k (0-based) of the row-major iterator
split_evenly_cell_column_major(self, row, col, k) ==
    LET ri == k % row
        ci == k \div row
    IN  Rect(compute_evenly_split(self.x0, self.x1, col, ci),
             compute_evenly_split(self.y0, self.y1, row, ri),
             compute_evenly_split(self.x0, self.x1, col, ci + 1),
             compute_evenly_split(self.y0, self.y1, row, ri + 1))

split_evenly_cell(self, row, col, k) ==
    LET ri == k \div col
        ci == k % col
    IN  Rect(compute_evenly_split(self.x0, self.x1, col, ci),
             compute_evenly_split(self.y0, self.y1, row, ri),
             compute_evenly_split(self.x0, self.x1, col, ci + 1),
             compute_evenly_split(self.y0, self.y1, row, ri + 1))

Rect_split_evenly(self, row, col) ==
    [k \in 1..(row * col) |-> split_evenly_cell(self, row, col, k - 1)]

\* consecutive pairs of a sequence: xs.iter().zip(xs.iter().skip(1))
zip_skip1(xs) == [i \in 1..(Len(xs) - 1) |-> << xs[i], xs[i + 1] >>]

\* Rect::split_grid
split_grid(self, x_breaks, y_breaks) ==
    LET xs == sort_unstable(<< self.x0, self.x1 >>
                  \o [i \in 1..Len(x_breaks) |-> x_breaks[i] + self.x0])
        ys == sort_unstable(<< self.y0, self.y1 >>
                  \o [i \in 1..Len(y_breaks) |-> y_breaks[i] + self.y0])
        xsegs == zip_skip1(xs)
        ysegs == zip_skip1(ys)
        nx == Len(xsegs)
    IN  [k \in 1..(Len(ysegs) * nx) |->
            LET yseg == ysegs[((k - 1) \div nx) + 1]
                xseg == xsegs[((k - 1) % nx) + 1]
            IN  Rect(xseg[1], yseg[1], xseg[2], yseg[2])]

\* Rect::truncate
truncate_upper_only(self, p) == << Min(p[1], self.x1), Min(p[2], self.y1) >>

truncate(self, p) ==
    << Max(Min(p[1], self.x1), self.x0), Max(Min(p[2], self.y1), self.y0) >>

\* i32 division, which truncates toward zero
TruncDiv(a, b) == IF a >= 0 THEN a \div b ELSE -((-a) \div b)

(***************************************************************************)
(* The drawing backend (mocked.rs, plotters-backend/src/lib.rs)             *)
(*                                                                          *)
(* A backend call is threaded through a record s:                           *)
(*   s.b       the MockedBackend fields                                     *)
(*   s.log     the calls that reached the backend during this operation     *)
(*   s.failAt  the number of the call of this operation that returns Err    *)
(*             (0: none); DrawingBackend methods all return a Result        *)
(*   s.res     the Result of the last call, s.val its Ok value              *)
(***************************************************************************)
MockedBackend_new(width, height) ==
    [ width |-> width, height |-> height,
      init_count |-> 0, draw_count |-> 0,
      num_draw_pixel_call |-> 0, num_draw_line_call |-> 0,
      num_draw_rect_call |-> 0, num_draw_text_call |-> 0,
      num_draw_path_call |-> 0, num_fill_polygon_call |-> 0 ]

get_size(b) == << b.width, b.height >>

Enter(b, failAt) ==
    [ b |-> b, log |-> << >>, failAt |-> failAt, res |-> "Ok", val |-> << >>,
      err |-> None ]

Fails(s) == s.failAt = Len(s.log) + 1

\* one log entry; init_count is the backend's init_count when the call arrived
Logged(s, fn, args, res) ==
    Append(s.log, [ fn |-> fn, args |-> args, res |-> res,
                    init_count |-> s.b.init_count ])

\* the error a backend function returns: a DrawingErrorKind of the backend
DrawingErrorKind(fn) == [ type |-> "DrawingErrorKind", fn |-> fn ]

Failed(s, fn, args) ==
    [ s EXCEPT !.log = Logged(s, fn, args, "Err"), !.res = "Err", !.val = << >>,
               !.err = DrawingErrorKind(fn) ]

\* MockedBackend::ensure_prepared
ensure_prepared(s) ==
    IF Fails(s) THEN Failed(s, "ensure_prepared", << >>)
    ELSE [ s EXCEPT !.b.init_count = @ + 1,
                    !.log = Logged(s, "ensure_prepared", << >>, "Ok"),
                    !.res = "Ok" ]

\* MockedBackend::present
present_keeps_draw_count(s) ==
    IF Fails(s) THEN Failed(s, "present", << >>)
    ELSE [ s EXCEPT !.b.init_count = 0,
                    !.log = Logged(s, "present", << >>, "Ok"),
                    !.res = "Ok" ]

present(s) ==
    IF Fails(s) THEN Failed(s, "present", << >>)
    ELSE [ s EXCEPT !.b.init_count = 0, !.b.draw_count = 0,
                    !.log = Logged(s, "present", << >>, "Ok"),
                    !.res = "Ok" ]

\* MockedBackend::check_before_draw
check_before_draw(b) == [ b EXCEPT !.draw_count = @ + 1 ]

\* MockedBackend::draw_pixel
draw_pixel(s, point) ==
    IF Fails(s) THEN Failed(s, "draw_pixel", << point >>)
    ELSE [ s EXCEPT !.b = [ check_before_draw(@) EXCEPT !.num_draw_pixel_call = @ + 1 ],
                    !.log = Logged(s, "draw_pixel", << point >>, "Ok"),
                    !.res = "Ok" ]

\* MockedBackend::draw_line
draw_line(s, from, to) ==
    IF Fails(s) THEN Failed(s, "draw_line", << from, to >>)
    ELSE [ s EXCEPT !.b = [ check_before_draw(@) EXCEPT !.num_draw_line_call = @ + 1 ],
                    !.log = Logged(s, "draw_line", << from, to >>, "Ok"),
                    !.res = "Ok" ]

\* MockedBackend::draw_rect
draw_rect(s, upper_left, bottom_right, fill) ==
    IF Fails(s) THEN Failed(s, "draw_rect", << upper_left, bottom_right, fill >>)
    ELSE [ s EXCEPT !.b = [ check_before_draw(@) EXCEPT !.num_draw_rect_call = @ + 1 ],
                    !.log = Logged(s, "draw_rect", << upper_left, bottom_right, fill >>, "Ok"),
                    !.res = "Ok" ]

\* MockedBackend::draw_text
draw_text(s, text, pos) ==
    IF Fails(s) THEN Failed(s, "draw_text", << text, pos >>)
    ELSE [ s EXCEPT !.b = [ check_before_draw(@) EXCEPT !.num_draw_text_call = @ + 1 ],
                    !.log = Logged(s, "draw_text", << text, pos >>, "Ok"),
                    !.res = "Ok" ]

\* MockedBackend::draw_path
draw_path(s, path) ==
    IF Fails(s) THEN Failed(s, "draw_path", << path >>)
    ELSE [ s EXCEPT !.b = [ check_before_draw(@) EXCEPT !.num_draw_path_call = @ + 1 ],
                    !.log = Logged(s, "draw_path", << path >>, "Ok"),
                    !.res = "Ok" ]

\* MockedBackend::fill_polygon
fill_polygon(s, path) ==
    IF Fails(s) THEN Failed(s, "fill_polygon", << path >>)
    ELSE [ s EXCEPT !.b = [ check_before_draw(@) EXCEPT !.num_fill_polygon_call = @ + 1 ],
                    !.log = Logged(s, "fill_polygon", << path >>, "Ok"),
                    !.res = "Ok" ]

\* MockedBackend::estimate_text_size; size is the extent of the text's layout box
estimate_text_size(s, text, size) ==
    IF Fails(s) THEN Failed(s, "estimate_text_size", << text >>)
    ELSE [ s EXCEPT !.log = Logged(s, "estimate_text_size", << text >>, "Ok"),
                    !.res = "Ok", !.val = size ]

\* the backend calls that draw something
DrawingPrimitives == { "draw_pixel", "draw_line", "draw_rect", "draw_text",
                       "draw_path", "fill_polygon" }

(***************************************************************************)
(* DrawingArea (area.rs)                                                    *)
(***************************************************************************)
Shift(p) == [ type |-> "Shift", v |-> p ]

DrawingArea(rect, coord) == [ rect |-> rect, coord |-> coord ]

\* DrawingArea::for_drawing_backend
for_drawing_backend(b) ==
    LET size == get_size(b)
    IN  DrawingArea(Rect(0, 0, size[1], size[2]), Shift(<< 0, 0 >>))

\* DrawingArea::strip_coord_spec
strip_coord_spec_screen(self) == DrawingArea(self.rect, Shift(<< 0, 0 >>))

strip_coord_spec(self) ==
    DrawingArea(self.rect, Shift(<< self.rect.x0, self.rect.y0 >>))

\* DrawingArea::apply_coord_spec
apply_coord_spec(self, coord_spec) == DrawingArea(self.rect, coord_spec)

\* DrawingArea::dim_in_pixel
dim_in_pixel_far_corner(self) ==
    << AsU32(self.rect.x1), AsU32(self.rect.y1) >>

dim_in_pixel(self) ==
    << AsU32(self.rect.x1 - self.rect.x0), AsU32(self.rect.y1 - self.rect.y0) >>

\* the closure `ops` handed to backend_ops, called on the backend
Ops(fn, args) == [ fn |-> fn, args |-> args ]

\* Cross::draw on the mapped centre: two diagonals, the second only if the first is Ok
Cross_draw(self, pos, b) ==
    LET x0 == pos[1] - self.size
        y0 == pos[2] - self.size
        x1 == pos[1] + self.size
        y1 == pos[2] + self.size
        first == draw_line(b, << x0, y0 >>, << x1, y1 >>)
    IN  IF first.res = "Err" THEN first
        ELSE draw_line(first, << x0, y1 >>, << x1, y0 >>)

(***************************************************************************)
(* Elements (element/*.rs)                                                  *)
(***************************************************************************)
\* one backend primitive with its arguments
Prim(fn, args) == [ fn |-> fn, args |-> args ]

call_primitive(b, prim) ==
    CASE prim.fn = "draw_line" -> draw_line(b, prim.args[1], prim.args[2])
      [] prim.fn = "draw_rect" -> draw_rect(b, prim.args[1], prim.args[2], prim.args[3])
      [] prim.fn = "draw_text" -> draw_text(b, prim.args[1], prim.args[2])
      [] prim.fn = "draw_path" -> draw_path(b, prim.args[1])
      [] prim.fn = "fill_polygon" -> fill_polygon(b, prim.args[1])

\* a run of backend calls each followed by `?`: the first Err ends the run
RECURSIVE issue_all(_, _)
issue_all(b, prims) ==
    IF prims = << >> THEN [ b EXCEPT !.res = "Ok" ]
    ELSE LET first == call_primitive(b, Head(prims))
         IN  issue_all(first, Tail(prims))

RECURSIVE issue(_, _)
issue(b, prims) ==
    IF prims = << >> THEN [ b EXCEPT !.res = "Ok" ]
    ELSE LET first == call_primitive(b, Head(prims))
         IN  IF first.res = "Err" THEN first ELSE issue(first, Tail(prims))

\* f64::round of n/4: to the nearest integer, halves away from zero
RoundQuarters(n) == IF n >= 0 THEN (n + 2) \div 4 ELSE -((2 - n) \div 4)

\* the elements
Cross(center, size) == [ type |-> "Cross", center |-> center, size |-> size ]
Text(text, coord) == [ type |-> "Text", text |-> text, coord |-> coord ]
MultiLineText(lines, coord, font_size) ==
    [ type |-> "MultiLineText", lines |-> lines, coord |-> coord,
      font_size |-> font_size ]

\* ShapeStyle: From<Color> and ShapeStyle::filled
ShapeStyle_from(color) == [ color |-> color, filled |-> FALSE, stroke_width |-> 1 ]
filled(self) ==
    [ color |-> self.color, filled |-> TRUE, stroke_width |-> self.stroke_width ]

\* a value of a Y: PartialOrd type: a number, or a value such as f64::NAN
\* that compares with nothing
Num(v) == [ nan |-> FALSE, v |-> v ]
NaN == [ nan |-> TRUE, v |-> 0 ]

\* PartialOrd::partial_cmp
partial_cmp(a, b) ==
    IF a.nan \/ b.nan THEN "None"
    ELSE IF a.v < b.v THEN "Less"
    ELSE IF a.v = b.v THEN "Equal"
    ELSE "Greater"

\* CandleStick::new
CandleStick_gain_unless_greater(x, open, high, low, close, gain_style, loss_style, width) ==
    [ type |-> "CandleStick",
      style |-> IF partial_cmp(open, close) = "Greater" THEN loss_style ELSE gain_style,
      width |-> width,
      points |-> << << x, open >>, << x, high >>, << x, low >>, << x, close >> >> ]

CandleStick(x, open, high, low, close, gain_style, loss_style, width) ==
    [ type |-> "CandleStick",
      style |-> IF partial_cmp(open, close) = "Less" THEN gain_style ELSE loss_style,
      width |-> width,
      points |-> << << x, open >>, << x, high >>, << x, low >>, << x, close >> >> ]

\* Cuboid::new
Cuboid(p0, p1) ==
    [ type |-> "Cuboid",
      vert |-> << << p0[1], p0[2], p0[3] >>, << p0[1], p0[2], p1[3] >>,
                  << p0[1], p1[2], p0[3] >>, << p0[1], p1[2], p1[3] >>,
                  << p1[1], p0[2], p0[3] >>, << p1[1], p0[2], p1[3] >>,
                  << p1[1], p1[2], p0[3] >>, << p1[1], p1[2], p1[3] >> >> ]

\* EmptyElement::at
EmptyElement_at(coord) == [ type |-> "EmptyElement", coord |-> coord ]

\* impl Add for EmptyElement
EmptyElement_add(self, other) ==
    [ type |-> "BoxedElement", offset |-> self.coord, inner |-> other ]

\* impl Add for BoxedElement
BoxedElement_add(self, yours) ==
    [ type |-> "ComposedElement", offset |-> self.offset,
      first |-> self.inner, second |-> yours ]

\* impl Add for ComposedElement
ComposedElement_add_offset_twice(self, rhs) ==
    [ type |-> "ComposedElement", offset |-> self.offset,
      first |-> self.first,
      second |-> [ type |-> "ComposedElement", offset |-> self.offset,
                   first |-> self.second, second |-> rhs ] ]

ComposedElement_add(self, rhs) ==
    [ type |-> "ComposedElement", offset |-> self.offset,
      first |-> self.first,
      second |-> [ type |-> "ComposedElement", offset |-> << 0, 0 >>,
                   first |-> self.second, second |-> rhs ] ]

\* the `+` of the composition: the Add impl of the left operand's type
Add(self, rhs) ==
    CASE self.type = "EmptyElement" -> EmptyElement_add(self, rhs)
      [] self.type = "BoxedElement" -> BoxedElement_add(self, rhs)
      [] self.type = "ComposedElement" -> ComposedElement_add(self, rhs)

\* PointCollection::point_iter of each element
point_iter(e) ==
    CASE e.type = "Cross" -> << e.center >>
      [] e.type \in { "Text", "MultiLineText", "EmptyElement" } -> << e.coord >>
      [] e.type \in { "BoxedElement", "ComposedElement" } -> << e.offset >>
      [] e.type = "CandleStick" ->
            [ i \in DOMAIN e.points |-> << e.points[i][1], e.points[i][2].v >> ]
      [] e.type = "Cuboid" -> e.vert
      [] e.type = "DynElement" -> e.points

\* the points of an element in reverse order
reversed(points) == [ i \in DOMAIN points |-> points[Len(points) + 1 - i] ]

\* IntoDynElement::into_dyn: the points copied out, the element boxed
into_dyn_reversed(self) ==
    [ type |-> "DynElement", points |-> reversed(point_iter(self)),
      drawable |-> self ]

into_dyn(self) ==
    [ type |-> "DynElement", points |-> point_iter(self), drawable |-> self ]

\* the closure |p| (p.0 + x0, p.1 + y0) mapped over the points of e
offset_points(e, x0, y0) ==
    LET points == point_iter(e)
    IN  [ i \in DOMAIN points |-> << points[i][1] + x0, points[i][2] + y0 >> ]

\* MultiLineText::layout_lines, for the default line height 1.25
layout_lines(self, p) ==
    [ idx \in 1..Len(self.lines) |->
        << p[1], RoundQuarters(4 * p[2] + (idx - 1) * self.font_size * 5) >> ]

\* MultiLineText::draw
MultiLineText_draw(self, points, b) ==
    IF points = << >> THEN [ b EXCEPT !.res = "Ok" ]
    ELSE LET layout == layout_lines(self, points[1])
         IN  issue(b, [ i \in DOMAIN self.lines |->
                          Prim("draw_text", << self.lines[i], layout[i] >>) ])

\* CandleStick::draw on its four mapped points
CandleStick_draw_always_filled(self, coords, b) ==
    LET points == IF coords[1][2] > coords[4][2]
                  THEN << coords[4], coords[2], coords[3], coords[1] >>
                  ELSE coords
        l == self.width \div 2
        r == self.width - self.width \div 2
    IN  issue(b, << Prim("draw_line", << points[1], points[2] >>),
                    Prim("draw_line", << points[3], points[4] >>),
                    Prim("draw_rect", << << points[1][1] - l, points[1][2] >>,
                                         << points[4][1] + r, points[4][2] >>,
                                         TRUE >>) >>)

CandleStick_draw(self, coords, b) ==
    LET points == IF coords[1][2] > coords[4][2]
                  THEN << coords[4], coords[2], coords[3], coords[1] >>
                  ELSE coords
        l == self.width \div 2
        r == self.width - self.width \div 2
        fill == self.style.filled
    IN  issue(b, << Prim("draw_line", << points[1], points[2] >>),
                    Prim("draw_line", << points[3], points[4] >>),
                    Prim("draw_rect", << << points[1][1] - l, points[1][2] >>,
                                         << points[4][1] + r, points[4][2] >>,
                                         fill >>) >>)

\* the six faces of Cuboid::draw as vertex numbers (0-based), in push order
CuboidFaces ==
    << << 0, 2, 6, 4 >>, << 1, 3, 7, 5 >>,
       << 0, 4, 5, 1 >>, << 2, 6, 7, 3 >>,
       << 0, 1, 3, 2 >>, << 4, 5, 7, 6 >> >>

\* the sort key of a face: the sum of the depths of its vertices
face_depth(t) == t[1][2] + t[2][2] + t[3][2] + t[4][2]

\* sort_by_cached_key(Reverse(depth)): stable, deepest face first; t was
\* pushed before the faces of s and is put before those of s not deeper than it
RECURSIVE insert_by_depth_after_equal(_, _)
insert_by_depth_after_equal(t, s) ==
    IF s = << >> THEN << t >>
    ELSE IF face_depth(t) > face_depth(Head(s)) THEN << t >> \o s
    ELSE << Head(s) >> \o insert_by_depth_after_equal(t, Tail(s))

RECURSIVE insert_by_depth(_, _)
insert_by_depth(t, s) ==
    IF s = << >> THEN << t >>
    ELSE IF face_depth(t) >= face_depth(Head(s)) THEN << t >> \o s
    ELSE << Head(s) >> \o insert_by_depth(t, Tail(s))

RECURSIVE sort_by_depth(_)
sort_by_depth(s) ==
    IF s = << >> THEN << >>
    ELSE insert_by_depth(s[1], sort_by_depth(Tail(s)))

\* Cuboid::draw on its eight mapped vertices (pixel, depth)
Cuboid_draw(self, vert, b) ==
    LET polygon == sort_by_depth(
                       [ f \in DOMAIN CuboidFaces |->
                           [ k \in 1..4 |-> vert[CuboidFaces[f][k] + 1] ] ])
        path(p) == << p[1][1], p[2][1], p[3][1], p[4][1], p[1][1] >>
    IN  issue(b, [ n \in 1..(2 * Len(polygon)) |->
                     IF n % 2 = 1
                     THEN Prim("fill_polygon", << SubSeq(path(polygon[(n + 1) \div 2]), 1, 4) >>)
                     ELSE Prim("draw_path", << path(polygon[n \div 2]) >>) ])

\* Drawable::draw of each element on its mapped points
RECURSIVE Drawable_draw(_, _, _)
Drawable_draw(self, pos, b) ==
    CASE self.type = "EmptyElement" -> [ b EXCEPT !.res = "Ok" ]
      [] self.type = "Cross" -> Cross_draw(self, pos[1], b)
      [] self.type = "Text" ->
            IF pos = << >> THEN [ b EXCEPT !.res = "Ok" ]
            ELSE draw_text(b, self.text, pos[1])
      [] self.type = "MultiLineText" -> MultiLineText_draw(self, pos, b)
      [] self.type = "CandleStick" -> CandleStick_draw(self, pos, b)
      [] self.type = "Cuboid" -> Cuboid_draw(self, pos, b)
      [] self.type = "DynElement" -> Drawable_draw(self.drawable, pos, b)
      [] self.type = "BoxedElement" ->
            IF pos = << >> THEN [ b EXCEPT !.res = "Ok" ]
            ELSE Drawable_draw(self.inner,
                               offset_points(self.inner, pos[1][1], pos[1][2]), b)
      [] self.type = "ComposedElement" ->
            IF pos = << >> THEN [ b EXCEPT !.res = "Ok" ]
            ELSE LET first == Drawable_draw(self.first,
                                  offset_points(self.first, pos[1][1], pos[1][2]), b)
                 IN  IF first.res = "Err" THEN first
                     ELSE Drawable_draw(self.second,
                              offset_points(self.second, pos[1][1], pos[1][2]), first)

\* the draw_func closure of draw_mesh called on each mesh line, until one fails
RECURSIVE mesh_lines(_, _)
mesh_lines(b, lines) ==
    IF lines = << >> THEN [ b EXCEPT !.res = "Ok" ]
    ELSE LET first == draw_line(b, Head(lines)[1], Head(lines)[2])
         IN  IF first.res = "Err" THEN first ELSE mesh_lines(first, Tail(lines))

call_ops(b, ops) ==
    CASE ops.fn = "draw_rect" -> draw_rect(b, ops.args[1], ops.args[2], ops.args[3])
      [] ops.fn = "Drawable::draw" -> Drawable_draw(ops.args[1], ops.args[2], b)
      [] ops.fn = "draw_mesh" -> mesh_lines(b, ops.args[1])
      [] ops.fn = "draw_text" -> draw_text(b, ops.args[1], ops.args[2])
      [] ops.fn = "draw_pixel" -> draw_pixel(b, ops.args[1])
      [] ops.fn = "estimate_text_size" -> estimate_text_size(b, ops.args[1], ops.args[2])
      [] ops.fn = "present" -> present(b)

\* DrawingAreaError::BackendError
BackendError(e) == [ type |-> "BackendError", source |-> e ]

\* Result::map_err(DrawingAreaError::BackendError)
map_err_sharing(t) ==
    IF t.res = "Err" THEN [ t EXCEPT !.err = [ type |-> "SharingError" ] ] ELSE t

map_err(t) == IF t.res = "Err" THEN [ t EXCEPT !.err = BackendError(@) ] ELSE t

\* DrawingArea::backend_ops
backend_ops_unprepared(self, s, ops) == map_err(call_ops(s, ops))

backend_ops_unchecked(self, s, ops) == map_err(call_ops(ensure_prepared(s), ops))

backend_ops(self, s, ops) ==
    LET p == map_err(ensure_prepared(s))
    IN  IF p.res = "Err" THEN p ELSE map_err(call_ops(p, ops))

\* DrawingArea::fill
fill(self, s) ==
    backend_ops(self, s,
        Ops("draw_rect", << << self.rect.x0, self.rect.y0 >>,
                            << self.rect.x1, self.rect.y1 >>, TRUE >>))

\* DrawingArea::present
DrawingArea_present_direct(self, s) == map_err(call_ops(s, Ops("present", << >>)))

DrawingArea_present(self, s) == backend_ops(self, s, Ops("present", << >>))

\* DrawingArea::estimate_text_size; size is the extent the backend reports
DrawingArea_estimate_text_size(self, s, text, size) ==
    backend_ops(self, s, Ops("estimate_text_size", << text, size >>))

\* DrawingArea::draw_text
DrawingArea_draw_text(self, s, text, pos) ==
    backend_ops(self, s,
        Ops("draw_text", << text, << pos[1] + self.rect.x0, pos[2] + self.rect.y0 >> >>))

\* CoordTranslate::translate of the coordinate systems attached to regions:
\* Shift adds its offset; a chart's system maps (x, y) to (ox + k*x, oy - k*y)
translate(coord, from) ==
    IF coord.type = "Shift"
    THEN << from[1] + coord.v[1], from[2] + coord.v[2] >>
    ELSE IF coord.type = "Cartesian3d"
    THEN << coord.v[1] + 2 * from[1] + from[3], coord.v[2] - 2 * from[2] - from[3] >>
    ELSE << coord.v[1] + coord.v[3] * from[1], coord.v[2] - coord.v[3] * from[2] >>

\* CoordTranslate::depth: 0 unless the coordinate system is three-dimensional
depth_of(coord, from) == IF coord.type = "Cartesian3d" THEN from[3] ELSE 0

\* BackendCoordOnly::map
BackendCoordOnly_map(coord_trans, from, rect) ==
    truncate(rect, translate(coord_trans, from))

\* BackendCoordAndZ::map
BackendCoordAndZ_map(coord_trans, from, rect) ==
    << truncate(rect, translate(coord_trans, from)), depth_of(coord_trans, from) >>

\* DrawingArea::draw_pixel
DrawingArea_draw_pixel(self, s, pos) ==
    backend_ops(self, s, Ops("draw_pixel", << translate(self.coord, pos) >>))

\* DrawingArea::draw: the element's points mapped by its CoordMapper, then the
\* element drawn on them through backend_ops
draw(self, s, element) ==
    LET points == point_iter(element)
        backend_coords ==
            [ i \in DOMAIN points |->
                IF element.type = "Cuboid"
                THEN BackendCoordAndZ_map(self.coord, points[i], self.rect)
                ELSE BackendCoordOnly_map(self.coord, points[i], self.rect) ]
    IN  backend_ops(self, s, Ops("Drawable::draw", << element, backend_coords >>))

\* DrawingArea::draw_mesh; lines are the mesh lines the coordinate system yields
draw_mesh(self, s, lines) == backend_ops(self, s, Ops("draw_mesh", << lines >>))

\* DrawingArea::shrink; the offsets and sizes are the in_pixels values
shrink(self, left_upper, dimension) ==
    LET x0 == Min(self.rect.x1, self.rect.x0 + left_upper[1])
        y0 == Min(self.rect.y1, self.rect.y0 + left_upper[2])
        x1 == Max(x0, x0 + dimension[1])
        y1 == Max(y0, y0 + dimension[2])
    IN  DrawingArea(Rect(x0, y0, x1, y1), Shift(<< x0, y0 >>))

\* DrawingArea::margin; the sizes are the in_pixels values
margin(self, top, bottom, left, right) ==
    DrawingArea(Rect(self.rect.x0 + left, self.rect.y0 + top,
                     self.rect.x1 - right, self.rect.y1 - bottom),
                Shift(<< self.rect.x0 + left, self.rect.y0 + top >>))

\* the closure |rect| Self { rect, coord: Shift((rect.x0, rect.y0)) } mapped over rects
as_areas(rects) ==
    [ i \in 1..Len(rects) |->
        DrawingArea(rects[i], Shift(<< rects[i].x0, rects[i].y0 >>)) ]

\* DrawingArea::split_vertically; y is the in_pixels value
split_vertically(self, y) ==
    as_areas(split(self.rect, << y + self.rect.y0 >>, TRUE))

\* DrawingArea::split_horizontally; x is the in_pixels value
split_horizontally_absolute(self, x) ==
    as_areas(split(self.rect, << x >>, FALSE))

split_horizontally(self, x) ==
    as_areas(split(self.rect, << x + self.rect.x0 >>, FALSE))

\* DrawingArea::split_evenly
split_evenly(self, row, col) == as_areas(Rect_split_evenly(self.rect, row, col))

\* DrawingArea::split_by_breakpoints; xs and ys are the in_pixels values
split_by_breakpoints(self, xs, ys) == as_areas(split_grid(self.rect, xs, ys))

\* DrawingArea::titled: s.res is the Result, s.val the returned region when Ok
titled_single_padding(self, s, text, size) ==
    LET x_padding == TruncDiv(self.rect.x1 - self.rect.x0, 2)
        e == DrawingArea_estimate_text_size(self, s, text, size)
    IN  IF e.res = "Err" THEN e
        ELSE LET text_h == e.val[2]
                 y_padding == Min(text_h \div 2, 5)
                 d == backend_ops(self, e,
                          Ops("draw_text", << text,
                              << self.rect.x0 + x_padding, self.rect.y0 + y_padding >> >>))
             IN  IF d.res = "Err" THEN d
                 ELSE [ d EXCEPT !.val =
                          DrawingArea(Rect(self.rect.x0,
                                           self.rect.y0 + y_padding + text_h,
                                           self.rect.x1, self.rect.y1),
                                      Shift(<< self.rect.x0,
                                               self.rect.y0 + y_padding + text_h >>)) ]

titled(self, s, text, size) ==
    LET x_padding == TruncDiv(self.rect.x1 - self.rect.x0, 2)
        e == DrawingArea_estimate_text_size(self, s, text, size)
    IN  IF e.res = "Err" THEN e
        ELSE LET text_h == e.val[2]
                 y_padding == Min(text_h \div 2, 5)
                 d == backend_ops(self, e,
                          Ops("draw_text", << text,
                              << self.rect.x0 + x_padding, self.rect.y0 + y_padding >> >>))
             IN  IF d.res = "Err" THEN d
                 ELSE [ d EXCEPT !.val =
                          DrawingArea(Rect(self.rect.x0,
                                           self.rect.y0 + y_padding * 2 + text_h,
                                           self.rect.x1, self.rect.y1),
                                      Shift(<< self.rect.x0,
                                               self.rect.y0 + y_padding * 2 + text_h >>)) ]

(***************************************************************************)
(* Layout: regions derived from the root region of a backend                *)
(***************************************************************************)
\* the text sizes estimate_text_size may report (width, height)
TextSizes == { << 2 * h, h >> : h \in TextHeights }

\* a rectangle whose size `as usize` is its size
NonNegative(rect) == rect.x0 <= rect.x1 /\ rect.y0 <= rect.y1

NoChart == [ none |-> "ChartContext" ]
NoState == [ none |-> "ChartState" ]

Init ==
    /\ \E size \in CanvasSizes : backend = MockedBackend_new(size[1], size[2])
    /\ calls = << >>
    /\ ret = "Ok"
    /\ error = None
    /\ parent = for_drawing_backend(backend)
    /\ result = << for_drawing_backend(backend) >>
    /\ op = [ name |-> "to_drawing_area", args |-> << >> ]
    /\ depth = 0
    /\ chart = NoChart
    /\ state = NoState
    /\ restored = NoChart
    /\ mapped = << >>

\* a layout operation that does not touch the backend
Layout(self, name, args, areas) ==
    /\ depth < MaxDepth
    /\ parent' = self
    /\ result' = areas
    /\ op' = [ name |-> name, args |-> args ]
    /\ depth' = depth + 1
    /\ ret' = "Ok"
    /\ error' = None
    /\ calls' = << >>
    /\ UNCHANGED << mapped, backend, chart, state, restored >>

SplitHorizontally ==
    \E i \in DOMAIN result, x \in SplitOffsets :
        Layout(result[i], "split_horizontally", << x >>,
               split_horizontally(result[i], x))

SplitVertically ==
    \E i \in DOMAIN result, y \in SplitOffsets :
        Layout(result[i], "split_vertically", << y >>,
               split_vertically(result[i], y))

\* on a rectangle of negative size `(to - from) as usize` wraps and the i32
\* product overflows; the operation is taken on the other rectangles
SplitEvenly ==
    \E i \in DOMAIN result, row \in 1..MaxGrid, col \in 1..MaxGrid :
        /\ NonNegative(result[i].rect)
        /\ Layout(result[i], "split_evenly", << row, col >>,
                  split_evenly(result[i], row, col))

Margin ==
    \E i \in DOMAIN result, m \in MarginSizes :
        Layout(result[i], "margin", m,
               << margin(result[i], m[1], m[2], m[3], m[4]) >>)

Shrink ==
    \E i \in DOMAIN result, left_upper \in ShrinkOffsets, dimension \in ShrinkSizes :
        Layout(result[i], "shrink", << left_upper, dimension >>,
               << shrink(result[i], left_upper, dimension) >>)

SplitByBreakpoints ==
    \E i \in DOMAIN result, bp \in BreakLists :
        Layout(result[i], "split_by_breakpoints", bp,
               split_by_breakpoints(result[i], bp[1], bp[2]))

Titled ==
    \E i \in DOMAIN result, size \in TextSizes, failAt \in 0..4 :
        LET t == titled(result[i], Enter(backend, failAt), "title", size)
        IN  /\ depth < MaxDepth
            /\ failAt <= Len(t.log)
            /\ parent' = result[i]
            /\ result' = IF t.res = "Ok" THEN << t.val >> ELSE << >>
            /\ op' = [ name |-> "titled", args |-> << size >> ]
            /\ depth' = depth + 1
            /\ ret' = t.res
            /\ error' = t.err
            /\ calls' = t.log
            /\ backend' = t.b
            /\ UNCHANGED << mapped, chart, state, restored >>

Next ==
    \/ SplitHorizontally
    \/ SplitVertically
    \/ SplitEvenly
    \/ SplitByBreakpoints
    \/ Margin
    \/ Shrink
    \/ Titled

Spec == Init /\ [][Next]_vars

\* the canvases of the scenarios of the test suite
ScenarioSizes == { << 902, 900 >>, << 1024, 768 >> }

InitScenario ==
    /\ \E size \in ScenarioSizes : backend = MockedBackend_new(size[1], size[2])
    /\ calls = << >>
    /\ ret = "Ok"
    /\ error = None
    /\ parent = for_drawing_backend(backend)
    /\ result = << for_drawing_backend(backend) >>
    /\ op = [ name |-> "to_drawing_area", args |-> << >> ]
    /\ depth = 0
    /\ chart = NoChart
    /\ state = NoState
    /\ restored = NoChart
    /\ mapped = << >>

\* the split offsets of the scenarios of the test suite
ScenarioOffsets == { 345 }

SplitScenario ==
    \E i \in DOMAIN result, x \in ScenarioOffsets :
        Layout(result[i], "split_horizontally", << x >>,
               split_horizontally(result[i], x))

NextScenario ==
    \/ Next
    \/ SplitScenario

SpecScenario == InitScenario /\ [][NextScenario]_vars

(***************************************************************************)
(* Properties of the layout operations                                      *)
(***************************************************************************)
Width(rect) == rect.x1 - rect.x0
Height(rect) == rect.y1 - rect.y0

\* the pixel (px, py) lies in the half-open pixel range of rect
Covers(rect, px, py) ==
    rect.x0 <= px /\ px < rect.x1 /\ rect.y0 <= py /\ py < rect.y1

Contained(inner, outer) ==
    /\ outer.x0 <= inner.x0 /\ inner.x0 <= inner.x1 /\ inner.x1 <= outer.x1
    /\ outer.y0 <= inner.y0 /\ inner.y0 <= inner.y1 /\ inner.y1 <= outer.y1

\* every pixel of outer lies in exactly one of the areas, and every area in outer
Partition(areas, outer) ==
    /\ \A i \in DOMAIN areas : Contained(areas[i].rect, outer)
    /\ \A px \in outer.x0..(outer.x1 - 1), py \in outer.y0..(outer.y1 - 1) :
          Cardinality({ i \in DOMAIN areas : Covers(areas[i].rect, px, py) }) = 1

Abs(v) == IF v < 0 THEN -v ELSE v

\* the cell of row ri and column ci (0-based) in a row-major list of col columns
CellAt(areas, col, ri, ci) == areas[ri * col + ci + 1].rect

\* C1: split_evenly((rows, cols)) on a rectangle of non-negative size returns
\* rows*cols cells that tile it exactly (all inside, every pixel in exactly one
\* cell, neighbours sharing their edge), and the cells of one row, and those of
\* one column, differ by at most 1 pixel in width and in height.
C1_SplitEvenlyTiles ==
    op.name = "split_evenly" =>
        LET row == op.args[1]
            col == op.args[2]
        IN  /\ Len(result) = row * col
            /\ Partition(result, parent.rect)
            /\ \A ri \in 0..(row - 1), ci \in 0..(col - 2) :
                  CellAt(result, col, ri, ci).x1 = CellAt(result, col, ri, ci + 1).x0
            /\ \A ri \in 0..(row - 2), ci \in 0..(col - 1) :
                  CellAt(result, col, ri, ci).y1 = CellAt(result, col, ri + 1, ci).y0
            /\ \A ri \in 0..(row - 1), ci \in 0..(col - 1), cj \in 0..(col - 1) :
                  /\ Abs(Height(CellAt(result, col, ri, ci))
                         - Height(CellAt(result, col, ri, cj))) <= 1
                  /\ Abs(Width(CellAt(result, col, ri, ci))
                         - Width(CellAt(result, col, ri, cj))) <= 1
            /\ \A ci \in 0..(col - 1), ri \in 0..(row - 1), rj \in 0..(row - 1) :
                  /\ Abs(Width(CellAt(result, col, ri, ci))
                         - Width(CellAt(result, col, rj, ci))) <= 1
                  /\ Abs(Height(CellAt(result, col, ri, ci))
                         - Height(CellAt(result, col, rj, ci))) <= 1

\* a 5-pixel-wide region cut into 2 rows of 3 columns: the width leaves a remainder
C1_Witness ==
    /\ op.name = "split_evenly"
    /\ op.args = << 2, 3 >>
    /\ Width(parent.rect) = 5
    /\ Height(parent.rect) > 0
    /\ Len(result) = 6

\* the length of segment i (0-based) of an axis of length size cut into n
SegmentLength(size, n, i) == (size \div n) + (IF i < size % n THEN 1 ELSE 0)

\* C2: the cells come in row-major order; on each axis segment 0 starts at the
\* region's bound, each segment starts where the previous one ends, the first
\* size%n segments are size/n + 1 long and the later ones size/n.
C2_SplitEvenlySegments ==
    op.name = "split_evenly" =>
        LET row == op.args[1]
            col == op.args[2]
            R == parent.rect
        IN  /\ Len(result) = row * col
            /\ \A ri \in 0..(row - 1), ci \in 0..(col - 1) :
                  LET c == CellAt(result, col, ri, ci)
                  IN  /\ c.x0 = IF ci = 0 THEN R.x0
                                ELSE CellAt(result, col, ri, ci - 1).x1
                      /\ c.y0 = IF ri = 0 THEN R.y0
                                ELSE CellAt(result, col, ri - 1, ci).y1
                      /\ Width(c) = SegmentLength(Width(R), col, ci)
                      /\ Height(c) = SegmentLength(Height(R), row, ri)

\* rows and columns differ and both axes leave a remainder
C2_Witness ==
    /\ op.name = "split_evenly"
    /\ op.args = << 3, 2 >>
    /\ Width(parent.rect) % 2 = 1
    /\ Height(parent.rect) % 3 = 2
    /\ Len(result) = 6

\* the root region of the 902x900 canvas was split evenly into (3, 3)
SplitEvenly902 ==
    /\ op.name = "split_evenly"
    /\ op.args = << 3, 3 >>
    /\ parent.rect = Rect(0, 0, 902, 900)

\* C3 as stated: the cell at row 0, column 0 is [0,0]-[300,300].
C3_FirstCell300 ==
    SplitEvenly902 => result[1].rect = Rect(0, 0, 300, 300)

\* C3 as amended: the cell at row 0, column 0 is [0,0]-[301,300]; the first of
\* the two remainder pixels of the width 902 goes to column 0.
C3_FirstCell301 ==
    SplitEvenly902 => result[1].rect = Rect(0, 0, 301, 300)

C3_Witness == SplitEvenly902 /\ Len(result) = 9

\* C4: the rectangle of P.shrink(offset, size) is contained in P's rectangle.
C4_ShrinkContained ==
    op.name = "shrink" => Contained(result[1].rect, parent.rect)

\* C5: the rectangle margin returns never has negative width or height.
C5_MarginNonNegative ==
    op.name = "margin" => NonNegative(result[1].rect)

\* C6: every region produced by a sequence of region operations from a root
\* region has x0 <= x1 and y0 <= y1.
C6_RegionsNonNegative ==
    \A i \in DOMAIN result : NonNegative(result[i].rect)

\* C7: the two regions of split_horizontally / split_vertically are contained
\* in the region that was split and partition it.
C7_SplitPartitions ==
    op.name \in { "split_horizontally", "split_vertically" } =>
        /\ Len(result) = 2
        /\ Partition(result, parent.rect)

\* the values of a sequence
Range(seq) == { seq[i] : i \in DOMAIN seq }

\* the boundaries of an axis from..to cut at the break points (offsets from from)
Boundaries(from, to, breaks) == { from, to } \cup { b + from : b \in Range(breaks) }

\* the break points that fall strictly inside the axis from..to
Interior(from, to, breaks) ==
    { v \in Boundaries(from, to, breaks) : from < v /\ v < to }

\* C14: split_by_breakpoints returns (distinct x boundaries - 1) * (distinct y
\* boundaries - 1) cells, the boundaries of an axis being the region's two
\* bounds and the break points; no cell has zero width or height because of a
\* repeated break point or one equal to a bound.
C14_BreakpointsDeduplicated ==
    op.name = "split_by_breakpoints" =>
        LET R == parent.rect
            bx == Boundaries(R.x0, R.x1, op.args[1])
            by == Boundaries(R.y0, R.y1, op.args[2])
        IN  Len(result) = (Cardinality(bx) - 1) * (Cardinality(by) - 1)

\* C15: the cells of split_by_breakpoints come row by row (y interval outer, x
\* interval inner), each inside the parent, together they partition the
\* parent, and there are (nx+1)*(ny+1) of them for nx and ny distinct interior
\* break points.
C15_BreakpointsPartition ==
    op.name = "split_by_breakpoints" =>
        LET R == parent.rect
            nx == Cardinality(Interior(R.x0, R.x1, op.args[1]))
            ny == Cardinality(Interior(R.y0, R.y1, op.args[2]))
        IN  /\ Len(result) = (nx + 1) * (ny + 1)
            /\ Partition(result, R)
            /\ \A ri \in 0..ny, ci \in 0..nx :
                  LET c == CellAt(result, nx + 1, ri, ci)
                  IN  /\ c.x0 = IF ci = 0 THEN R.x0
                                ELSE CellAt(result, nx + 1, ri, ci - 1).x1
                      /\ c.y0 = IF ri = 0 THEN R.y0
                                ELSE CellAt(result, nx + 1, ri - 1, ci).y1
                      /\ ci = nx => c.x1 = R.x1
                      /\ ri = ny => c.y1 = R.y1

\* C16: split_by_breakpoints with no break point on either axis returns
\* exactly one region, whose rectangle is the rectangle of the region split.
C16_NoBreakpointsIdentity ==
    (op.name = "split_by_breakpoints" /\ op.args = << << >>, << >> >>) =>
        /\ Len(result) = 1
        /\ result[1].rect = parent.rect

\* the calls of fn in the log, failed ones included
CallsTo(log, fn) == { k \in DOMAIN log : log[k].fn = fn }

\* C17: titled on [x0,y0]-[x1,y1] with a title of estimated text height H
\* issues exactly one draw_text and returns [x0, y0 + min(H/2,5)*2 + H]-[x1,y1];
\* when the size estimate or the draw_text (or a prepare before them) fails,
\* the error is returned and no region is produced.
C17_TitledRegion ==
    op.name = "titled" =>
        LET R == parent.rect
            H == op.args[1][2]
        IN  /\ ret = "Ok" =>
                  /\ Len(result) = 1
                  /\ result[1].rect = Rect(R.x0, R.y0 + Min(H \div 2, 5) * 2 + H, R.x1, R.y1)
                  /\ Cardinality(CallsTo(calls, "draw_text")) = 1
                  /\ Cardinality(CallsTo(calls, "estimate_text_size")) = 1
                  /\ \A k \in DOMAIN calls : calls[k].res = "Ok"
            /\ ret = "Err" =>
                  /\ result = << >>
                  /\ calls # << >> /\ calls[Len(calls)].res = "Err"
            /\ (\E k \in DOMAIN calls : calls[k].res = "Err") => ret = "Err"

\* a title 12 pixels high on a region off the origin: the padding is capped at 5
C17_Witness ==
    /\ op.name = "titled"
    /\ ret = "Ok"
    /\ op.args[1][2] = 12
    /\ parent.rect.y0 > 0
    /\ result[1].rect.y0 = parent.rect.y0 + 22
    /\ backend.num_draw_text_call = 1

\* C18: split_horizontally(x) on [x0,y0]-[x1,y1] returns [x0,y0]-[x0+x,y1] and
\* [x0+x,y0]-[x1,y1], split_vertically(y) returns [x0,y0]-[x1,y0+y] and
\* [x0,y0+y]-[x1,y1], the offset counted from the region's own origin; the
\* 1024x768 canvas split horizontally at 345 gives [0,0]-[345,768] and
\* [345,0]-[1024,768].
C18_SplitAtOffset ==
    LET R == parent.rect
    IN  /\ op.name = "split_horizontally" =>
              /\ Len(result) = 2
              /\ result[1].rect = Rect(R.x0, R.y0, R.x0 + op.args[1], R.y1)
              /\ result[2].rect = Rect(R.x0 + op.args[1], R.y0, R.x1, R.y1)
        /\ op.name = "split_vertically" =>
              /\ Len(result) = 2
              /\ result[1].rect = Rect(R.x0, R.y0, R.x1, R.y0 + op.args[1])
              /\ result[2].rect = Rect(R.x0, R.y0 + op.args[1], R.x1, R.y1)
        /\ (op.name = "split_horizontally" /\ op.args = << 345 >>
                /\ R = Rect(0, 0, 1024, 768)) =>
              /\ result[1].rect = Rect(0, 0, 345, 768)
              /\ result[2].rect = Rect(345, 0, 1024, 768)

\* the right part of the 1024x768 canvas split at 345, split again at 345
C18_Witness ==
    /\ op.name = "split_horizontally"
    /\ op.args = << 345 >>
    /\ parent.rect = Rect(345, 0, 1024, 768)
    /\ result[2].rect = Rect(690, 0, 1024, 768)

(***************************************************************************)
(* Drawing: region operations that reach the backend                        *)
(***************************************************************************)
\* a region operation on self that goes through backend_ops; t is its outcome
Drawing(self, name, args, t, failAt) ==
    /\ depth < MaxOps
    /\ failAt <= Len(t.log)
    /\ parent' = self
    /\ op' = [ name |-> name, args |-> args ]
    /\ depth' = depth + 1
    /\ ret' = t.res
    /\ error' = t.err
    /\ calls' = t.log
    /\ backend' = t.b
    /\ UNCHANGED << mapped, result, chart, state, restored >>

Fill ==
    \E i \in DOMAIN result, failAt \in 0..2 :
        Drawing(result[i], "fill", << >>,
                fill(result[i], Enter(backend, failAt)), failAt)

Present ==
    \E i \in DOMAIN result, failAt \in 0..2 :
        Drawing(result[i], "present", << >>,
                DrawingArea_present(result[i], Enter(backend, failAt)), failAt)

EstimateTextSize ==
    \E i \in DOMAIN result, size \in TextSizes, failAt \in 0..2 :
        Drawing(result[i], "estimate_text_size", << size >>,
                DrawingArea_estimate_text_size(result[i], Enter(backend, failAt),
                                               "text", size), failAt)

DrawPixel ==
    \E i \in DOMAIN result, pos \in SamplePoints, failAt \in 0..2 :
        Drawing(result[i], "draw_pixel", << pos >>,
                DrawingArea_draw_pixel(result[i], Enter(backend, failAt), pos), failAt)

DrawText ==
    \E i \in DOMAIN result, pos \in SamplePoints, failAt \in 0..2 :
        Drawing(result[i], "draw_text", << pos >>,
                DrawingArea_draw_text(result[i], Enter(backend, failAt), "text", pos),
                failAt)

Draw ==
    \E i \in DOMAIN result, center \in SamplePoints, failAt \in 0..3 :
        LET element == Cross(center, 1)
        IN  Drawing(result[i], "draw", << element >>,
                    draw(result[i], Enter(backend, failAt), element), failAt)

\* the mesh lines of a region: none, one or two lines across its rectangle
MeshLines(self) ==
    LET h == << << self.rect.x0, self.rect.y0 >>, << self.rect.x1, self.rect.y0 >> >>
        v == << << self.rect.x0, self.rect.y0 >>, << self.rect.x0, self.rect.y1 >> >>
    IN  { << >>, << h >>, << h, v >> }

DrawMesh ==
    \E i \in DOMAIN result, failAt \in 0..3 :
        \E lines \in MeshLines(result[i]) :
            Drawing(result[i], "draw_mesh", << lines >>,
                    draw_mesh(result[i], Enter(backend, failAt), lines), failAt)

NextDraw ==
    \/ SplitHorizontally
    \/ Titled
    \/ Fill
    \/ Present
    \/ EstimateTextSize
    \/ DrawPixel
    \/ DrawText
    \/ Draw
    \/ DrawMesh

SpecDraw == Init /\ [][NextDraw]_vars

\* C9: the prepare count the test backend observes (init_count, reset to 0 by
\* present) increments at most once per frame.
C9_PreparedOncePerFrame == backend.init_count <= 1

\* C10: every drawing primitive that reaches the backend finds it Prepared:
\* an ensure_prepared has succeeded since the most recent present (init_count,
\* which present resets to 0, is at least 1 when the primitive arrives).
C10_PreparedBeforeDrawing ==
    \A k \in DOMAIN calls :
        calls[k].fn \in DrawingPrimitives => calls[k].init_count >= 1

\* a fill that drew after an earlier frame was presented
C10_Witness ==
    /\ op.name = "fill"
    /\ ret = "Ok"
    /\ backend.num_draw_rect_call = 2
    /\ backend.draw_count = 1
    /\ \E k \in DOMAIN calls : calls[k].fn = "draw_rect"

\* the positions of the log at which a present succeeded
Presents(log) == { k \in DOMAIN log : log[k].fn = "present" /\ log[k].res = "Ok" }

\* the drawing primitives of the log that the backend carried out after the
\* last present of the log (all of them when the log holds no present)
DrawnSincePresent(log) ==
    Cardinality({ k \in DOMAIN log :
                    /\ log[k].fn \in DrawingPrimitives
                    /\ log[k].res = "Ok"
                    /\ \A j \in Presents(log) : j < k })

\* C11: each present closes the frame and leaves the backend not prepared
\* (init_count = 0), and draw_count equals the number of drawing primitives
\* carried out since the most recent present, or since construction: a step
\* with a present restarts the count from the primitives that follow it, any
\* other step adds its primitives to the count.
C11_DrawCountPerFrame ==
    [][ /\ backend'.draw_count =
              (IF Presents(calls') = {} THEN backend.draw_count ELSE 0)
              + DrawnSincePresent(calls')
        /\ (calls' # << >> /\ calls'[Len(calls')].fn = "present"
                /\ calls'[Len(calls')].res = "Ok")
              => (backend'.init_count = 0 /\ backend'.draw_count = 0) ]_vars

\* a cross drawn in the frame after a present: two lines, the earlier fill not counted
C11_Witness ==
    /\ op.name = "draw"
    /\ ret = "Ok"
    /\ backend.num_draw_rect_call = 1
    /\ backend.num_draw_line_call = 2
    /\ backend.draw_count = 2

\* the pixel point p lies in [x0,x1]x[y0,y1] of rect
InRect(p, rect) ==
    /\ rect.x0 <= p[1] /\ p[1] <= rect.x1
    /\ rect.y0 <= p[2] /\ p[2] <= rect.y1

\* C13: the pixel that a region operation obtains by translating a logical
\* point through the region's coordinate system lies within the region's
\* rectangle when it reaches the backend: the point handed to the backend's
\* draw_pixel by DrawingArea::draw_pixel, and the mapped centre of a cross
\* drawn by DrawingArea::draw (the point its two diagonals are laid around).
C13_MappedPixelInRegion ==
    /\ op.name = "draw_pixel" =>
          \A k \in DOMAIN calls :
              calls[k].fn = "draw_pixel" => InRect(calls[k].args[1], parent.rect)
    /\ (op.name = "draw" /\ op.args[1].type = "Cross") =>
          \A k \in DOMAIN calls :
              calls[k].fn = "draw_line" =>
                  InRect(<< (calls[k].args[1][1] + calls[k].args[2][1]) \div 2,
                            (calls[k].args[1][2] + calls[k].args[2][2]) \div 2 >>,
                         parent.rect)

\* the region operations that wrap one backend call, and the call each wraps
Wrapped ==
    [ fill |-> "draw_rect", draw_pixel |-> "draw_pixel", draw_text |-> "draw_text",
      estimate_text_size |-> "estimate_text_size", present |-> "present" ]

\* C28: fill, draw, draw_pixel, draw_text, estimate_text_size and present
\* return an error exactly when ensure_prepared or the wrapped backend call
\* fails; when ensure_prepared fails the wrapped call is not issued, when it
\* succeeds the wrapped call is; a failing backend present is reported to
\* the caller of DrawingArea::present.
C28_ErrorsPropagate ==
    op.name \in DOMAIN Wrapped \cup { "draw" } =>
        /\ calls # << >>
        /\ calls[1].fn = "ensure_prepared"
        /\ ret = "Err" <=> \E k \in DOMAIN calls : calls[k].res = "Err"
        /\ calls[1].res = "Err" => Len(calls) = 1
        /\ (calls[1].res = "Ok" /\ op.name \in DOMAIN Wrapped) =>
              /\ Len(calls) = 2
              /\ calls[2].fn = Wrapped[op.name]
        /\ (calls[1].res = "Ok" /\ op.name = "draw") =>
              /\ Len(calls) >= 2
              /\ \A k \in 2..Len(calls) : calls[k].fn \in DrawingPrimitives
        /\ (op.name = "present"
                /\ \E k \in DOMAIN calls : calls[k].fn = "present" /\ calls[k].res = "Err")
              => ret = "Err"

\* a present whose backend present failed after frames were drawn
C28_Witness ==
    /\ op.name = "present"
    /\ ret = "Err"
    /\ Len(calls) = 2
    /\ calls[2].fn = "present"
    /\ calls[2].res = "Err"
    /\ backend.draw_count >= 1

\* the backend operations, with the canvas first laid out by any of the
\* layout operations
LayoutFirst ==
    /\ depth = 0
    /\ (SplitHorizontally \/ SplitVertically \/ Margin \/ Shrink)

NextRegion ==
    \/ LayoutFirst
    \/ Titled
    \/ Fill
    \/ Present
    \/ EstimateTextSize
    \/ DrawPixel
    \/ DrawText
    \/ Draw
    \/ DrawMesh

SpecRegion == Init /\ [][NextRegion]_vars

\* C29: no region operation returns SharingError or LayoutError: an error of
\* fill, draw, draw_pixel, draw_text, titled, estimate_text_size, present or
\* draw_mesh is a BackendError that wraps the error of the backend call that
\* failed, and the layout operations do not fail.
C29_OnlyBackendErrors ==
    /\ ret = "Err" <=> error # None
    /\ ret = "Err" =>
          /\ error.type = "BackendError"
          /\ error.type \notin { "SharingError", "LayoutError" }
          /\ calls # << >>
          /\ calls[Len(calls)].res = "Err"
          /\ error.source = DrawingErrorKind(calls[Len(calls)].fn)
          /\ op.name \in DOMAIN Wrapped \cup { "draw", "titled", "draw_mesh" }
    /\ op.name \in { "split_horizontally", "split_vertically", "margin", "shrink" } =>
          /\ ret = "Ok"
          /\ calls = << >>

\* a mesh whose second line the backend refused
C29_Witness ==
    /\ op.name = "draw_mesh"
    /\ ret = "Err"
    /\ Len(calls) = 3
    /\ error = BackendError(DrawingErrorKind("draw_line"))

\* C30: DrawingArea::present calls ensure_prepared before the backend's
\* present, so the backend's present never arrives at a backend that is not
\* prepared: a present on a backend that is not prepared opens a frame and
\* then closes it, and estimate_text_size leaves such a backend prepared.
C30_PresentPrepares ==
    [][ /\ \A k \in DOMAIN calls' :
              calls'[k].fn = "present" =>
                  /\ k = 2
                  /\ calls'[1].fn = "ensure_prepared"
                  /\ calls'[1].res = "Ok"
                  /\ calls'[k].init_count >= 1
        /\ (op'.name = "present" /\ backend.init_count = 0 /\ ret' = "Ok") =>
              /\ Len(calls') = 2
              /\ calls'[1].init_count = 0
              /\ calls'[2].init_count = 1
              /\ backend'.init_count = 0
        /\ (op'.name = "estimate_text_size" /\ backend.init_count = 0
                /\ calls' # << >> /\ calls'[1].res = "Ok") =>
              backend'.init_count = 1 ]_vars

\* a present on a backend that an earlier present, or nothing yet, left not
\* prepared, after two operations
C30_Witness ==
    /\ op.name = "present"
    /\ ret = "Ok"
    /\ depth = 3
    /\ Len(calls) = 2
    /\ calls[1].init_count = 0
    /\ calls[2].init_count = 1
    /\ backend.init_count = 0
    /\ backend.num_draw_rect_call = 1

(***************************************************************************)
(* Elements drawn on a region                                               *)
(***************************************************************************)
\* the elements that are appended to an anchor
SubElements == { Cross(ElementOffsets[1], 1), Text("t", ElementOffsets[2]) }

\* anchor + e1 + ... + en
RECURSIVE Compose(_, _)
Compose(anchor, elems) ==
    IF elems = << >> THEN EmptyElement_at(anchor)
    ELSE Add(Compose(anchor, SubSeq(elems, 1, Len(elems) - 1)), elems[Len(elems)])

\* the three-dimensional coordinate systems attached to regions
Coords3d == { [ type |-> "Cartesian3d", v |-> << 1, 2 >> ] }

\* DrawingArea::draw of element on self, the first thing drawn on the backend
\* and not retried after a failure; made records how the element was built
DrawElement(self, element, made, failAt) ==
    LET t == draw(self, Enter(backend, failAt), element)
    IN  /\ depth < MaxDepth
        /\ op.name # "draw"
        /\ backend = MockedBackend_new(backend.width, backend.height)
        /\ failAt <= Len(t.log)
        /\ parent' = self
        /\ op' = [ name |-> "draw", args |-> << element, made >> ]
        /\ depth' = depth + 1
        /\ ret' = t.res
        /\ error' = t.err
        /\ calls' = t.log
        /\ backend' = t.b
        /\ UNCHANGED << mapped, result, chart, state, restored >>

DrawComposed ==
    \E i \in DOMAIN result, anchor \in SamplePoints, n \in 0..MaxElems, failAt \in 0..7 :
        \E elems \in [ 1..n -> SubElements ] :
            DrawElement(result[i], Compose(anchor, elems), << anchor, elems >>, failAt)

\* the gain and loss styles of the candlesticks
Styles == { ShapeStyle_from("GREEN"), filled(ShapeStyle_from("RED")) }

\* CandleStick::new on the numbers c = (x, open, high, low, close, width)
NewCandleStick(c, gain_style, loss_style) ==
    CandleStick(c[1], Num(c[2]), Num(c[3]), Num(c[4]), Num(c[5]),
                gain_style, loss_style, c[6])

DrawCandleStick ==
    \E i \in DOMAIN result, c \in CandleSticks, gain_style, loss_style \in Styles,
       failAt \in 0..4 :
        /\ gain_style # loss_style
        /\ DrawElement(result[i], NewCandleStick(c, gain_style, loss_style),
                       << c, gain_style, loss_style >>, failAt)

DrawCuboid ==
    \E i \in DOMAIN result, c \in CuboidCorners, coord \in Coords3d, failAt \in 0..13 :
        DrawElement(apply_coord_spec(result[i], coord), Cuboid(c[1], c[2]), c, failAt)

DrawMultiLineText ==
    \E i \in DOMAIN result, lines \in TextLines, pos \in SamplePoints,
       font_size \in FontSizes, failAt \in 0..4 :
        DrawElement(result[i], MultiLineText(lines, pos, font_size),
                    << lines, pos, font_size >>, failAt)

\* CandleStick::new on open and close prices that may be incomparable, before
\* anything is drawn; the element and the arguments it was built from are
\* recorded
ConstructCandleStick ==
    \E open, close \in { Num(v) : v \in Prices } \cup { NaN },
       gain_style, loss_style \in Styles :
        /\ gain_style # loss_style
        /\ depth = 0
        /\ op' = [ name |-> "CandleStick::new",
                   args |-> << CandleStick(1, open, Num(13137), Num(12883), close,
                                           gain_style, loss_style, 15),
                               << open, close, gain_style, loss_style >> >> ]
        /\ depth' = depth + 1
        /\ UNCHANGED << mapped, backend, calls, ret, error, parent, result, chart, state,
                        restored >>

\* the elements that are erased before they are drawn
ErasedElements ==
    { NewCandleStick(c, ShapeStyle_from("GREEN"), filled(ShapeStyle_from("RED"))) :
        c \in CandleSticks }
    \cup { MultiLineText(lines, pos, 2) : lines \in TextLines, pos \in SamplePoints }
    \cup { Compose(anchor, elems) :
             anchor \in SamplePoints, elems \in [ 1..2 -> SubElements ] }

DrawDyn ==
    \E i \in DOMAIN result, e \in ErasedElements, failAt \in 0..4 :
        DrawElement(result[i], into_dyn(e), e, failAt)

NextElement ==
    \/ Margin
    \/ DrawDyn
    \/ ConstructCandleStick
    \/ DrawComposed
    \/ DrawCandleStick
    \/ DrawCuboid
    \/ DrawMultiLineText

SpecElement == Init /\ [][NextElement]_vars

\* the calls of the log that the backend carried out, per backend function
CountOk(log, fn) ==
    Cardinality({ k \in DOMAIN log : log[k].fn = fn /\ log[k].res = "Ok" })

\* the backend calls that drawing element on self issues when none of them fails
CallsOf(self, b, element) == draw(self, Enter(b, 0), element).log

\* C12: when a backend call fails while a region draws a multi-primitive
\* element, drawing stops there: the calls issued are the calls of the
\* unfailing drawing up to the failing one, which is the last; the error is
\* returned; and every primitive carried out before it stays counted by the
\* backend (no rollback).
C12_StopsAtFailingPrimitive ==
    [][ op'.name = "draw" =>
          LET full == CallsOf(parent', backend, op'.args[1])
              n == Len(calls')
          IN  /\ n >= 1 /\ n <= Len(full)
              /\ \A k \in 1..n :
                    /\ calls'[k].fn = full[k].fn
                    /\ calls'[k].args = full[k].args
                    /\ k < n => calls'[k].res = "Ok"
              /\ ret' = calls'[n].res
              /\ ret' = "Ok" => n = Len(full)
              /\ backend'.draw_count =
                    backend.draw_count
                    + Cardinality({ k \in 1..n : calls'[k].fn \in DrawingPrimitives
                                                  /\ calls'[k].res = "Ok" })
              /\ backend'.num_draw_line_call =
                    backend.num_draw_line_call + CountOk(calls', "draw_line")
              /\ backend'.num_draw_rect_call =
                    backend.num_draw_rect_call + CountOk(calls', "draw_rect")
              /\ backend'.num_draw_text_call =
                    backend.num_draw_text_call + CountOk(calls', "draw_text")
              /\ backend'.num_draw_path_call =
                    backend.num_draw_path_call + CountOk(calls', "draw_path")
              /\ backend'.num_fill_polygon_call =
                    backend.num_fill_polygon_call + CountOk(calls', "fill_polygon") ]_vars

\* a composed element of three sub-elements whose third primitive failed: two
\* primitives were drawn and stay drawn, the later ones were not issued
C12_Witness ==
    /\ op.name = "draw"
    /\ op.args[1].type = "ComposedElement"
    /\ Len(op.args[2][2]) = 3
    /\ ret = "Err"
    /\ Len(calls) = 4
    /\ calls[4].fn \in DrawingPrimitives
    /\ backend.draw_count = 2
    /\ Len(CallsOf(parent, backend, op.args[1])) > 4

\* the function and arguments of each call of a log
Issued(log) == [ k \in DOMAIN log |-> << log[k].fn, log[k].args >> ]

\* the calls of each element of elems drawn on its own, one after the other,
\* its pixel points offset by the pixel a
RECURSIVE DrawnInOrder(_, _, _)
DrawnInOrder(elems, a, b) ==
    IF elems = << >> THEN << >>
    ELSE Issued(Drawable_draw(Head(elems), offset_points(Head(elems), a[1], a[2]),
                              Enter(b, 0)).log)
         \o DrawnInOrder(Tail(elems), a, b)

\* C20: drawing anchor + e1 + ... + en maps the anchor once and then draws
\* e1, ..., en in append order, each on its own pixel points offset by the
\* mapped anchor; an anchor with nothing appended issues no backend primitive.
C20_ComposedDrawsInOrder ==
    (op.name = "draw" /\ ret = "Ok"
        /\ op.args[1].type \in { "EmptyElement", "BoxedElement", "ComposedElement" }) =>
        LET anchor == op.args[2][1]
            elems == op.args[2][2]
            a == BackendCoordOnly_map(parent.coord, anchor, parent.rect)
        IN  /\ Issued(calls)
                 = << << "ensure_prepared", << >> >> >> \o DrawnInOrder(elems, a, backend)
            /\ elems = << >> =>
                  \A k \in DOMAIN calls : calls[k].fn \notin DrawingPrimitives

\* text + cross + text appended to an anchor that maps off the origin
C20_Witness ==
    /\ op.name = "draw"
    /\ ret = "Ok"
    /\ op.args[1].type = "ComposedElement"
    /\ op.args[2][1] = << 1, 2 >>
    /\ Len(op.args[2][2]) = 3
    /\ op.args[2][2][1].type = "Text"
    /\ op.args[2][2][2].type = "Cross"
    /\ op.args[2][2][3].type = "Text"
    /\ Len(calls) = 5
    /\ backend.draw_count = 4

\* the six faces of a cuboid drawn on self, in construction order, each the
\* four (pixel, depth) vertices BackendCoordAndZ::map gives
FacesOf(self, cuboid) ==
    [ f \in DOMAIN CuboidFaces |->
        [ k \in 1..4 |->
            BackendCoordAndZ_map(self.coord, cuboid.vert[CuboidFaces[f][k] + 1],
                                 self.rect) ] ]

\* the place of face f in the drawing order: after every deeper face and
\* after every face of the same depth sum constructed before it
PlaceOf(faces, f) ==
    1 + Cardinality({ g \in DOMAIN faces :
                        \/ face_depth(faces[g]) > face_depth(faces[f])
                        \/ face_depth(faces[g]) = face_depth(faces[f]) /\ g < f })

\* C22: Cuboid::draw emits the six faces in non-increasing order of the sum
\* of the depths of their four vertices, faces of equal sum in construction
\* order, and for each face issues fill_polygon on its four vertices and
\* right after it draw_path on the closed outline of five points: 12 backend
\* calls in all.
C22_CuboidFacesByDepth ==
    (op.name = "draw" /\ op.args[1].type = "Cuboid" /\ ret = "Ok") =>
        LET faces == FacesOf(parent, op.args[1])
            drawn == SubSeq(calls, 2, Len(calls))
        IN  /\ calls[1].fn = "ensure_prepared"
            /\ Len(drawn) = 12
            /\ \A f \in DOMAIN faces :
                  LET n == PlaceOf(faces, f)
                      pixels == [ k \in 1..4 |-> faces[f][k][1] ]
                  IN  /\ drawn[2 * n - 1].fn = "fill_polygon"
                      /\ drawn[2 * n - 1].args = << pixels >>
                      /\ drawn[2 * n].fn = "draw_path"
                      /\ drawn[2 * n].args = << pixels \o << pixels[1] >> >>
            /\ \A n \in 1..5 :
                  \E f, g \in DOMAIN faces :
                      /\ PlaceOf(faces, f) = n
                      /\ PlaceOf(faces, g) = n + 1
                      /\ face_depth(faces[f]) >= face_depth(faces[g])

\* the unit cuboid drawn without a failure: the face at z = 1 is drawn
\* first, the four faces of depth sum 2 follow, the face at z = 0 is last
C22_Witness ==
    /\ op.name = "draw"
    /\ op.args[1].type = "Cuboid"
    /\ op.args[2] = << << 0, 0, 0 >>, << 1, 1, 1 >> >>
    /\ ret = "Ok"
    /\ Len(calls) = 13
    /\ backend.num_fill_polygon_call = 6
    /\ backend.num_draw_path_call = 6
    /\ LET faces == FacesOf(parent, op.args[1])
       IN  /\ PlaceOf(faces, 2) = 1
           /\ PlaceOf(faces, 3) = 2
           /\ PlaceOf(faces, 6) = 5
           /\ PlaceOf(faces, 1) = 6

\* C23: a candlestick takes the gain style exactly when open < close and the
\* loss style in every other case: open > close, open = close, or values
\* that do not compare; with open = 130.06 and close = 129.15 it takes the
\* loss style.
C23_GainOnlyWhenOpenBelowClose ==
    op.name = "CandleStick::new" =>
        LET style == op.args[1].style
            open == op.args[2][1]
            close == op.args[2][2]
            gain_style == op.args[2][3]
            loss_style == op.args[2][4]
            below == ~open.nan /\ ~close.nan /\ open.v < close.v
        IN  /\ below => style = gain_style
            /\ ~below => style = loss_style
            /\ style = gain_style <=> below
            /\ (open = Num(13006) /\ close = Num(12915)) => style = loss_style

\* the candlestick of the scenario, its loss style the filled one
C23_Witness ==
    /\ op.name = "CandleStick::new"
    /\ op.args[2][1] = Num(13006)
    /\ op.args[2][2] = Num(12915)
    /\ op.args[2][4] = filled(ShapeStyle_from("RED"))
    /\ op.args[1].style = filled(ShapeStyle_from("RED"))

\* C24: drawing a candlestick issues the high-low line, as the segment from
\* the upper end of the body to the mapped high and the segment from the
\* mapped low to the lower end of the body, and then one body rectangle that
\* spans from the mapped open to the mapped close vertically and reaches half
\* the width to the left of the mapped x and the rest of the width to the
\* right, filled exactly when the fill flag of the style is set.
C24_CandleStickBody ==
    (op.name = "draw" /\ op.args[1].type = "CandleStick" /\ ret = "Ok") =>
        LET c == op.args[2][1]
            at(y) == BackendCoordOnly_map(parent.coord, << c[1], y >>, parent.rect)
            x == at(c[2])[1]
            upper == Min(at(c[2])[2], at(c[5])[2])
            lower == Max(at(c[2])[2], at(c[5])[2])
            width == c[6]
        IN  /\ Len(calls) = 4
            /\ calls[1].fn = "ensure_prepared"
            /\ calls[2].fn = "draw_line"
            /\ calls[2].args = << << x, upper >>, at(c[3]) >>
            /\ calls[3].fn = "draw_line"
            /\ calls[3].args = << at(c[4]), << x, lower >> >>
            /\ calls[4].fn = "draw_rect"
            /\ calls[4].args[1] = << x - width \div 2, upper >>
            /\ calls[4].args[2] = << x + (width - width \div 2), lower >>
            /\ calls[4].args[2][1] - calls[4].args[1][1] = width
            /\ { calls[4].args[1][2], calls[4].args[2][2] }
                  = { at(c[2])[2], at(c[5])[2] }
            /\ calls[4].args[3] = op.args[1].style.filled

\* a candlestick of width 3 whose open maps below its close, in the loss style
\* that is not filled: its body is drawn from the close to the open, unfilled
C24_Witness ==
    /\ op.name = "draw"
    /\ op.args[1].type = "CandleStick"
    /\ op.args[2][1] = << 2, 2, 3, 0, 1, 3 >>
    /\ op.args[1].style = ShapeStyle_from("GREEN")
    /\ ret = "Ok"
    /\ parent.rect.x0 > 0
    /\ NonNegative(parent.rect)
    /\ calls[4].fn = "draw_rect"
    /\ calls[4].args[1][2] < calls[4].args[2][2]
    /\ calls[4].args[3] = FALSE

\* C21: an erased element exposes the points the element exposed when it was
\* erased, in the same order, and drawing it on a region issues the backend
\* calls, with the arguments and results, of drawing the element itself there,
\* returns the same result and leaves the backend in the same state.
C21_ErasurePreservesDrawing ==
    [][ (op'.name = "draw" /\ op'.args[1].type = "DynElement") =>
          LET E == op'.args[1].drawable
              failAt == IF ret' = "Err" THEN Len(calls') ELSE 0
              t == draw(parent', Enter(backend, failAt), E)
          IN  /\ point_iter(op'.args[1]) = point_iter(E)
              /\ calls' = t.log
              /\ ret' = t.res
              /\ backend' = t.b ]_vars

\* an erased candlestick drawn without a failure: two lines and a rectangle
C21_Witness ==
    /\ op.name = "draw"
    /\ op.args[1].type = "DynElement"
    /\ op.args[2].type = "CandleStick"
    /\ ret = "Ok"
    /\ Len(calls) = 4
    /\ backend.num_draw_line_call = 2
    /\ backend.num_draw_rect_call = 1

(***************************************************************************)
(* Chart state capture and restore (chart/state.rs)                         *)
(***************************************************************************)
\* SizeDesc::in_pixels of a u32
in_pixels_u32(size) == AsI32(size)

\* a ChartContext without label areas, as ChartState::restore builds it
ChartContext(drawing_area, drawing_area_pos) ==
    [ x_label_area |-> << None, None >>,
      y_label_area |-> << None, None >>,
      drawing_area |-> drawing_area,
      drawing_area_pos |-> drawing_area_pos ]

\* impl From<ChartContext> for ChartState
ChartState_from(c) ==
    [ drawing_area_pos |-> c.drawing_area_pos,
      drawing_area_size |-> dim_in_pixel(c.drawing_area),
      coord |-> c.drawing_area.coord ]

\* ChartState::restore
restore_at_origin(self, area) ==
    LET a == shrink(area, << 0, 0 >>,
                    << in_pixels_u32(self.drawing_area_size[1]),
                       in_pixels_u32(self.drawing_area_size[2]) >>)
    IN  ChartContext(apply_coord_spec(a, self.coord), self.drawing_area_pos)

restore(self, area) ==
    LET a == shrink(area, self.drawing_area_pos,
                    << in_pixels_u32(self.drawing_area_size[1]),
                       in_pixels_u32(self.drawing_area_size[2]) >>)
    IN  ChartContext(apply_coord_spec(a, self.coord), self.drawing_area_pos)

\* the coordinate systems attached to plotting regions
ChartCoords == { [ type |-> "Cartesian2d", v |-> << 0, 3, 1 >> ],
                 [ type |-> "Cartesian2d", v |-> << 1, 2, 2 >> ] }

\* a chart built on the region root: its plotting region lies at offset pos
\* with size dim inside root, and carries the coordinate system coord
build_chart(root, pos, dim, coord) ==
    ChartContext(
        DrawingArea(Rect(root.rect.x0 + pos[1], root.rect.y0 + pos[2],
                         root.rect.x0 + pos[1] + dim[1],
                         root.rect.y0 + pos[2] + dim[2]), coord),
        pos)

BuildChart ==
    \E i \in DOMAIN result, pos \in ChartOffsets, dim \in ChartSizes,
       coord \in ChartCoords :
        LET c == build_chart(result[i], pos, dim, coord)
        IN  /\ depth < MaxDepth
            /\ Contained(c.drawing_area.rect, result[i].rect)
            /\ chart' = c
            /\ state' = NoState
            /\ restored' = NoChart
            /\ parent' = result[i]
            /\ op' = [ name |-> "build_chart", args |-> << pos, dim, coord >> ]
            /\ depth' = depth + 1
            /\ ret' = "Ok"
            /\ error' = None
            /\ calls' = << >>
            /\ UNCHANGED << mapped, backend, result >>

\* ChartContext::into_chart_state, on the chart built last
IntoChartState ==
    /\ op.name = "build_chart"
    /\ state' = ChartState_from(chart)
    /\ op' = [ name |-> "into_chart_state", args |-> << >> ]
    /\ UNCHANGED << mapped, backend, calls, ret, error, parent, result, depth, chart, restored >>

\* ChartState::restore, onto the region the chart was built on or onto the
\* root region of the backend
Restore ==
    /\ op.name = "into_chart_state"
    /\ \E area \in { parent, for_drawing_backend(backend) } :
          /\ restored' = restore(state, area)
          /\ op' = [ name |-> "restore", args |-> << area >> ]
    /\ UNCHANGED << mapped, backend, calls, ret, error, parent, result, depth, chart, state >>

NextChart ==
    \/ SplitEvenly
    \/ BuildChart
    \/ IntoChartState
    \/ Restore

SpecChart == Init /\ [][NextChart]_vars

\* C8: a state captured from a chart whose plotting region lies inside the
\* region A it was built on, restored onto A, gives a plotting region with the
\* same pixel rectangle and the same coordinate system, so that every logical
\* point maps to the same pixel as before.
C8_RestoreRoundTrip ==
    (op.name = "restore" /\ op.args[1] = parent) =>
        /\ restored.drawing_area.rect = chart.drawing_area.rect
        /\ restored.drawing_area.coord = chart.drawing_area.coord
        /\ \A p \in SamplePoints :
              BackendCoordOnly_map(restored.drawing_area.coord, p,
                                   restored.drawing_area.rect)
              = BackendCoordOnly_map(chart.drawing_area.coord, p,
                                     chart.drawing_area.rect)

\* a chart placed off the origin of a region that is itself off the canvas origin
C8_Witness ==
    /\ op.name = "restore"
    /\ op.args[1] = parent
    /\ parent.rect.x0 > 0
    /\ chart.drawing_area_pos = << 1, 0 >>
    /\ Width(chart.drawing_area.rect) = 1
    /\ restored.drawing_area.rect = chart.drawing_area.rect

(***************************************************************************)
(* Layout with regions that carry a chart's coordinate system               *)
(***************************************************************************)
\* strip_coord_spec of a region, or of a region given a coordinate system by
\* apply_coord_spec
StripCoordSpec ==
    \E i \in DOMAIN result :
        \E area \in { result[i] }
                     \cup { apply_coord_spec(result[i], coord) : coord \in ChartCoords } :
            Layout(area, "strip_coord_spec", << >>, << strip_coord_spec(area) >>)

NextLayout ==
    \/ Next
    \/ StripCoordSpec

SpecLayout == Init /\ [][NextLayout]_vars

\* C26: after any sequence of layout operations from a root region, the
\* coordinate system of every resulting shift region is the shift by the
\* origin of its own rectangle.
C26_ShiftIsOwnOrigin ==
    \A i \in DOMAIN result :
        result[i].coord = Shift(<< result[i].rect.x0, result[i].rect.y0 >>)

\* the coordinate system of a chart stripped from a region off the canvas
\* origin that two layout operations produced
C26_Witness ==
    /\ op.name = "strip_coord_spec"
    /\ depth = 2
    /\ parent.coord.type = "Cartesian2d"
    /\ parent.rect.x0 > 0
    /\ parent.rect.y0 > 0
    /\ result = << DrawingArea(parent.rect, Shift(<< parent.rect.x0, parent.rect.y0 >>)) >>

(***************************************************************************)
(* Shrinking by size descriptors                                            *)
(***************************************************************************)
\* size descriptors: a number of pixels, or a percentage of the width or of
\* the height of the region the descriptor is resolved against
pixels(v) == [ type |-> "Pixels", v |-> v ]
percent_width(v) == [ type |-> "Width", v |-> v ]
percent_height(v) == [ type |-> "Height", v |-> v ]

\* SizeDesc::in_pixels against a region of non-negative size: a percentage is
\* rounded to the nearest pixel
in_pixels(size, area) ==
    LET dim == dim_in_pixel(area)
    IN  CASE size.type = "Pixels" -> size.v
          [] size.type = "Width" -> (size.v * dim[1].lo + 50) \div 100
          [] size.type = "Height" -> (size.v * dim[2].lo + 50) \div 100

\* DrawingArea::shrink on size descriptors
shrink_sized_after_move(self, left_upper, dimension) ==
    LET moved == shrink(self, << in_pixels(left_upper[1], self),
                                 in_pixels(left_upper[2], self) >>,
                        << self.rect.x1 - self.rect.x0, self.rect.y1 - self.rect.y0 >>)
    IN  shrink(self,
               << in_pixels(left_upper[1], self), in_pixels(left_upper[2], self) >>,
               << in_pixels(dimension[1], DrawingArea(Rect(moved.rect.x0, moved.rect.y0,
                                                          self.rect.x1, self.rect.y1),
                                                     moved.coord)),
                  in_pixels(dimension[2], DrawingArea(Rect(moved.rect.x0, moved.rect.y0,
                                                          self.rect.x1, self.rect.y1),
                                                     moved.coord)) >>)

shrink_sized(self, left_upper, dimension) ==
    shrink(self,
           << in_pixels(left_upper[1], self), in_pixels(left_upper[2], self) >>,
           << in_pixels(dimension[1], self), in_pixels(dimension[2], self) >>)

\* the canvases shrunk: the one of test_relative_shrink and a small one
ShrinkCanvases == { << 1000, 1200 >>, << 30, 20 >> }
\* the (x, y) offsets and (width, height) sizes handed to shrink
SizedOffsets == { << pixels(0), pixels(0) >>, << percent_width(10), pixels(100) >>,
                  << pixels(-10), percent_height(50) >>, << pixels(1100), pixels(5) >> }
SizedDimensions == { << pixels(200), percent_height(50) >>, << pixels(0), pixels(2000) >>,
                     << percent_width(25), pixels(10) >>, << pixels(-5), pixels(10) >> }

InitShrink ==
    /\ \E size \in ShrinkCanvases : backend = MockedBackend_new(size[1], size[2])
    /\ calls = << >>
    /\ ret = "Ok"
    /\ error = None
    /\ parent = for_drawing_backend(backend)
    /\ result = << for_drawing_backend(backend) >>
    /\ op = [ name |-> "to_drawing_area", args |-> << >> ]
    /\ depth = 0
    /\ chart = NoChart
    /\ state = NoState
    /\ restored = NoChart
    /\ mapped = << >>

\* on a rectangle of negative size the width `as u32` wraps; the percentages
\* are taken of the other rectangles
ShrinkSized ==
    \E i \in DOMAIN result, left_upper \in SizedOffsets, dimension \in SizedDimensions :
        /\ NonNegative(result[i].rect)
        /\ Layout(result[i], "shrink", << left_upper, dimension >>,
                  << shrink_sized(result[i], left_upper, dimension) >>)

NextShrink ==
    \/ Margin
    \/ ShrinkSized

SpecShrink == InitShrink /\ [][NextShrink]_vars

\* a percentage p of the length n, rounded to the nearest pixel
PercentOf(p, n) == (2 * p * n + 100) \div 200

\* the pixels a size descriptor stands for in a region of the given rectangle
Resolved(size, rect) ==
    IF size.type = "Pixels" THEN size.v
    ELSE IF size.type = "Width" THEN PercentOf(size.v, rect.x1 - rect.x0)
    ELSE PercentOf(size.v, rect.y1 - rect.y0)

DualCoordChartContext_new_same_side(primary, secondary_coord) ==
    [ primary |-> [ primary EXCEPT !.x_label_area[1] = None,
                                    !.y_label_area[1] = None ],
      secondary |->
          [ x_label_area |-> << primary.x_label_area[1], None >>,
            y_label_area |-> << primary.y_label_area[1], None >>,
            drawing_area |-> apply_coord_spec(strip_coord_spec(primary.drawing_area),
                                              secondary_coord),
            drawing_area_pos |-> << 0, 0 >> ] ]

DualCoordChartContext_new(primary, secondary_coord) ==
    [ primary |-> [ primary EXCEPT !.x_label_area[1] = None,
                                    !.y_label_area[2] = None ],
      secondary |->
          [ x_label_area |-> << primary.x_label_area[1], None >>,
            y_label_area |-> << None, primary.y_label_area[2] >>,
            drawing_area |-> apply_coord_spec(strip_coord_spec(primary.drawing_area),
                                              secondary_coord),
            drawing_area_pos |-> << 0, 0 >> ] ]

\* which of the label areas (top, bottom, left, right) a chart is built with
LabelAreaConfigs ==
    { << FALSE, FALSE, FALSE, FALSE >>, << TRUE, TRUE, TRUE, TRUE >>,
      << FALSE, TRUE, TRUE, FALSE >>, << TRUE, FALSE, FALSE, TRUE >> }

\* the chart c built on root with the label areas of config: each is the
\* strip of root on that side of the plotting region
with_label_areas(root, c, config) ==
    LET r == c.drawing_area.rect
        area(on, rect) ==
            IF on THEN DrawingArea(rect, Shift(<< rect.x0, rect.y0 >>)) ELSE None
    IN  [ c EXCEPT
            !.x_label_area =
                << area(config[1], Rect(r.x0, root.rect.y0, r.x1, r.y0)),
                   area(config[2], Rect(r.x0, r.y1, r.x1, root.rect.y1)) >>,
            !.y_label_area =
                << area(config[3], Rect(root.rect.x0, r.y0, r.x0, r.y1)),
                   area(config[4], Rect(r.x1, r.y0, root.rect.x1, r.y1)) >> ]

BuildLabelledChart ==
    \E i \in DOMAIN result, pos \in ChartOffsets, dim \in ChartSizes,
       coord \in ChartCoords, config \in LabelAreaConfigs :
        LET c == with_label_areas(result[i], build_chart(result[i], pos, dim, coord),
                                  config)
        IN  /\ depth < MaxDepth
            /\ Contained(c.drawing_area.rect, result[i].rect)
            /\ chart' = c
            /\ state' = NoState
            /\ restored' = NoChart
            /\ parent' = result[i]
            /\ op' = [ name |-> "build_chart", args |-> << pos, dim, coord, config >> ]
            /\ depth' = depth + 1
            /\ ret' = "Ok"
            /\ error' = None
            /\ calls' = << >>
            /\ UNCHANGED << mapped, backend, result >>

\* ChartContext::set_secondary_coord on the chart built last: chart becomes
\* the DualCoordChartContext, the primary chart it was made from is recorded
SetSecondaryCoord ==
    \E secondary_coord \in ChartCoords :
        /\ op.name = "build_chart"
        /\ chart' = DualCoordChartContext_new(chart, secondary_coord)
        /\ op' = [ name |-> "set_secondary_coord", args |-> << chart, secondary_coord >> ]
        /\ UNCHANGED << mapped, backend, calls, ret, error, parent, result, depth, state,
                        restored >>

NextDual ==
    \/ Margin
    \/ BuildLabelledChart
    \/ SetSecondaryCoord

SpecDual == Init /\ [][NextDual]_vars

\* C25: once a dual-coordinate chart is made from a primary chart, the
\* primary's x_label_area[0] and y_label_area[1] have moved to the secondary
\* (the secondary holds what the primary held there, the primary holds
\* nothing), the primary keeps its x_label_area[1] and y_label_area[0] and
\* the secondary has nothing there, no slot is held by both, and the
\* secondary's plotting region has the pixel rectangle of the primary's.
C25_LabelAreasMoved ==
    op.name = "set_secondary_coord" =>
        LET before == op.args[1]
            primary == chart.primary
            secondary == chart.secondary
        IN  /\ secondary.x_label_area[1] = before.x_label_area[1]
            /\ primary.x_label_area[1] = None
            /\ secondary.y_label_area[2] = before.y_label_area[2]
            /\ primary.y_label_area[2] = None
            /\ primary.x_label_area[2] = before.x_label_area[2]
            /\ primary.y_label_area[1] = before.y_label_area[1]
            /\ secondary.x_label_area[2] = None
            /\ secondary.y_label_area[1] = None
            /\ \A k \in 1..2 :
                  /\ primary.x_label_area[k] = None \/ secondary.x_label_area[k] = None
                  /\ primary.y_label_area[k] = None \/ secondary.y_label_area[k] = None
            /\ secondary.drawing_area.rect = primary.drawing_area.rect
            /\ primary.drawing_area = before.drawing_area
            /\ secondary.drawing_area.coord = op.args[2]

\* a primary chart with all four label areas, off the origin of its region,
\* given a secondary coordinate system other than its own
C25_Witness ==
    /\ op.name = "set_secondary_coord"
    /\ \A k \in 1..2 : /\ op.args[1].x_label_area[k] # None
                       /\ op.args[1].y_label_area[k] # None
    /\ op.args[1].drawing_area_pos = << 1, 0 >>
    /\ op.args[2] # op.args[1].drawing_area.coord
    /\ chart.secondary.x_label_area[1] # None
    /\ chart.secondary.y_label_area[2] # None
    /\ chart.primary.x_label_area[2] # None
    /\ chart.primary.y_label_area[1] # None

(***************************************************************************)
(* Clamping and coordinate mapping (Rect::truncate, CoordMapper)            *)
(***************************************************************************)
\* a call on the region self that returns the value out and leaves the backend alone
Mapping(self, name, args, out) ==
    /\ depth < MaxDepth
    /\ parent' = self
    /\ op' = [ name |-> name, args |-> args ]
    /\ mapped' = out
    /\ depth' = depth + 1
    /\ ret' = "Ok"
    /\ error' = None
    /\ calls' = << >>
    /\ UNCHANGED << backend, result, chart, state, restored >>

\* Rect::truncate of a pixel point, or of the point the last truncate returned
Truncate ==
    \E i \in DOMAIN result :
        \E p \in PixelPoints \cup (IF op.name = "truncate" THEN { mapped } ELSE {}) :
            Mapping(result[i], "truncate", << p >>, truncate(result[i].rect, p))

\* BackendCoordOnly::map through the region's own or a chart's coordinate system
MapPixel ==
    \E i \in DOMAIN result, from \in SamplePoints :
        \E coord \in { result[i].coord } \cup ChartCoords :
            Mapping(apply_coord_spec(result[i], coord), "BackendCoordOnly::map",
                    << coord, from >>,
                    BackendCoordOnly_map(coord, from, result[i].rect))

\* BackendCoordAndZ::map through a three-dimensional coordinate system
MapPixelAndZ ==
    \E i \in DOMAIN result, from \in Points3d, coord \in Coords3d :
        Mapping(apply_coord_spec(result[i], coord), "BackendCoordAndZ::map",
                << coord, from >>,
                BackendCoordAndZ_map(coord, from, result[i].rect))

NextMap ==
    \/ SplitHorizontally
    \/ SplitVertically
    \/ Truncate
    \/ MapPixel
    \/ MapPixelAndZ

SpecMap == Init /\ [][NextMap]_vars

\* C19: on a rectangle with x0 <= x1 and y0 <= y1, truncate(p) lies in
\* [x0,x1]x[y0,y1], equals p when p is already inside, and truncating its own
\* output again returns it unchanged; the plain-pixel and the pixel-plus-depth
\* mapping both return truncate(translate(logical)) as their pixel.
C19_TruncateClamps ==
    [][ /\ (op'.name = "truncate" /\ NonNegative(parent'.rect)) =>
              /\ InRect(mapped', parent'.rect)
              /\ InRect(op'.args[1], parent'.rect) => mapped' = op'.args[1]
              /\ (op.name = "truncate" /\ parent' = parent /\ op'.args[1] = mapped)
                    => mapped' = mapped
        /\ op'.name = "BackendCoordOnly::map" =>
              mapped' = truncate(parent'.rect, translate(op'.args[1], op'.args[2]))
        /\ op'.name = "BackendCoordAndZ::map" =>
              mapped'[1] = truncate(parent'.rect, translate(op'.args[1], op'.args[2])) ]_vars

\* a point left of and inside the height of a region off the origin, clamped
\* onto the region's left edge
C19_Witness ==
    /\ op.name = "truncate"
    /\ NonNegative(parent.rect)
    /\ parent.rect.x0 > 0
    /\ op.args[1] = << -2, 1 >>
    /\ mapped = << parent.rect.x0, 1 >>
====
